---- MODULE Spec2Model ----
(***************************************************************************)
(* Model of app.py: the text normalizer (format_exponents, format_output)  *)
(* and the two request handlers (/api/solve, /api/chat).                   *)
(*                                                                         *)
(* Text is a sequence of one-character strings, so that the regular        *)
(* expressions of the source are modelled by what they match, character by *)
(* character.                                                              *)
(***************************************************************************)
EXTENDS Integers, Sequences, FiniteSets, TLC

\* ------------------------------------------------------------------ text

\* ASCII digits: the part of \d the inputs of the model exercise
Digits == {"0", "1", "2", "3", "4", "5", "6", "7", "8", "9"}

\* ASCII whitespace: the part of \s (and of str.strip) the inputs exercise
Whitespace == {" ", "\t", "\n", "\r", "\f"}

IsDigit(c) == c \in Digits

IsSpace(c) == c \in Whitespace

UpperCase == <<"A", "B", "C", "D", "E", "F", "G", "H", "I", "J", "K", "L", "M",
               "N", "O", "P", "Q", "R", "S", "T", "U", "V", "W", "X", "Y", "Z">>

LowerCase == <<"a", "b", "c", "d", "e", "f", "g", "h", "i", "j", "k", "l", "m",
               "n", "o", "p", "q", "r", "s", "t", "u", "v", "w", "x", "y", "z">>

\* case folding of re.IGNORECASE
Lower(c) ==
    IF \E i \in 1..26 : UpperCase[i] = c
    THEN LowerCase[CHOOSE i \in 1..26 : UpperCase[i] = c]
    ELSE c

\* s[i..] for 1 <= i <= Len(s)+1
From(s, i) == SubSeq(s, i, Len(s))

\* the literal p occurs in s at position i
MatchAt(s, i, p) ==
    /\ i >= 1
    /\ i + Len(p) - 1 <= Len(s)
    /\ \A k \in 1..Len(p) : s[i + k - 1] = p[k]

\* the literal p occurs in s at position i, ignoring letter case
MatchAtNoCase(s, i, p) ==
    /\ i >= 1
    /\ i + Len(p) - 1 <= Len(s)
    /\ \A k \in 1..Len(p) : Lower(s[i + k - 1]) = Lower(p[k])

Min(S) == CHOOSE x \in S : \A y \in S : x <= y

Max(S) == CHOOSE x \in S : \A y \in S : x >= y

\* length of the longest run of characters of class C that starts at
\* position i (what a greedy \d+ or \s* takes there)
Run(s, i, C) ==
    LET stop == {j \in i..Len(s) : s[j] \notin C}
    IN  IF i > Len(s) THEN 0
        ELSE IF stop = {} THEN Len(s) - i + 1
        ELSE Min(stop) - i

DigitRun(s, i) == Run(s, i, Digits)

SpaceRun(s, i) == Run(s, i, Whitespace)

\* re.sub of a literal pattern by a literal replacement, from position i on:
\* leftmost match first, the scan resumes after each match
RECURSIVE SubLiteral(_, _, _, _)
SubLiteral(s, i, p, r) ==
    LET at == {j \in i..Len(s) : MatchAt(s, j, p)}
    IN  IF at = {} THEN From(s, i)
        ELSE SubSeq(s, i, Min(at) - 1) \o r
               \o SubLiteral(s, Min(at) + Len(p), p, r)

\* ------------------------------------------------------ format_exponents

SupOpen == <<"<", "s", "u", "p", ">">>

SupClose == <<"<", "/", "s", "u", "p", ">">>

\* re.sub(r'\^(\d+)', r'<sup>\1</sup>', text), from position i on
RECURSIVE SubSup(_, _)
SubSup(s, i) ==
    LET at == {j \in i..Len(s) : s[j] = "^" /\ DigitRun(s, j + 1) >= 1}
    IN  IF at = {} THEN From(s, i)
        ELSE LET m == Min(at)
                 n == DigitRun(s, m + 1)
             IN  SubSeq(s, i, m - 1)
                   \o SupOpen \o SubSeq(s, m + 1, m + n) \o SupClose
                   \o SubSup(s, m + n + 1)

\* the digits 2..9 of the legacy rules
LegacyDigit == <<"2", "3", "4", "5", "6", "7", "8", "9">>

\* their superscript glyphs U+00B2, U+00B3, U+2074 .. U+2079; each is one
\* character of the text, written here by an ASCII name
LegacyGlyph == <<"sup2", "sup3", "sup4", "sup5", "sup6", "sup7", "sup8", "sup9">>

\* the k first legacy substitutions x^2 -> x(sup2), x^3 -> x(sup3), ... in source order
RECURSIVE SubLegacy(_, _)
SubLegacy(s, k) ==
    IF k = 0 THEN s
    ELSE SubLiteral(SubLegacy(s, k - 1), 1,
                    <<"x", "^", LegacyDigit[k]>>, <<"x", LegacyGlyph[k]>>)

\* a plausible slip: the legacy glyph rules run before the generic rule
format_exponents_legacy_first(text) == SubSup(SubLegacy(text, 8), 1)

format_exponents(text) == SubLegacy(SubSup(text, 1), 8)

\* --------------------------------------------------------- format_output

\* text.strip(): leading and trailing whitespace removed
Strip(s) ==
    LET keep == {i \in 1..Len(s) : ~IsSpace(s[i])}
    IN  IF keep = {} THEN <<>> ELSE SubSeq(s, Min(keep), Max(keep))

\* position of the last "\n" among s[i..j], or 0
LastNewline(s, i, j) ==
    LET nl == {k \in i..j : s[k] = "\n"}
    IN  IF nl = {} THEN 0 ELSE Max(nl)

\* re.sub(r'\n\s*\n', '\n', s), from position i on: \s* is greedy and backs
\* off to the last "\n" of the whitespace run that follows the first "\n"
RECURSIVE CollapseBlank(_, _)
CollapseBlank(s, i) ==
    LET end(j) == LastNewline(s, j + 1, j + SpaceRun(s, j + 1))
        at == {j \in i..Len(s) : s[j] = "\n" /\ end(j) > 0}
    IN  IF at = {} THEN From(s, i)
        ELSE SubSeq(s, i, Min(at) - 1) \o <<"\n">>
               \o CollapseBlank(s, end(Min(at)) + 1)

MarkerFinalAnswer == <<"F", "i", "n", "a", "l", " ", "a", "n", "s", "w", "e", "r">>

MarkerTheAnswerIs == <<"T", "h", "e", " ", "a", "n", "s", "w", "e", "r", " ", "i", "s">>

MarkerResult == <<"R", "e", "s", "u", "l", "t">>

\* the alternation (Final answer|The answer is|Result), in source order
Markers == <<MarkerFinalAnswer, MarkerTheAnswerIs, MarkerResult>>

StrongFinalAnswer ==
    <<"<", "s", "t", "r", "o", "n", "g", ">",
      "F", "i", "n", "a", "l", " ", "A", "n", "s", "w", "e", "r", ":", " ">>

StrongClose == <<"<", "/", "s", "t", "r", "o", "n", "g", ">">>

\* length of the first alternative that matches at position p, or 0
MarkerLenAt(s, p) ==
    IF MatchAtNoCase(s, p, Markers[1]) THEN Len(Markers[1])
    ELSE IF MatchAtNoCase(s, p, Markers[2]) THEN Len(Markers[2])
    ELSE IF MatchAtNoCase(s, p, Markers[3]) THEN Len(Markers[3])
    ELSE 0

\* :?\s*(.+) tried at position e (just after the marker) with the colon taken
\* (c = 1) or not (c = 0): \s* takes the whole whitespace run and gives back
\* one character at a time until (.+) has a character left.  The result is the
\* position where group 2 starts, or 0 when this branch fails.
TailStart(s, e, c) ==
    LET w == SpaceRun(s, e + c)
    IN  IF e + c + w <= Len(s) THEN e + c + w
        ELSE IF w >= 1 THEN e + c + w - 1
        ELSE 0

\* the regular expression matched at position p: start of group 2, or 0.
\* :? is greedy: the branch with the colon is tried first.
GroupStartAt(s, p) ==
    LET k == MarkerLenAt(s, p)
        e == p + k
    IN  IF k = 0 THEN 0
        ELSE IF e <= Len(s) /\ s[e] = ":" /\ TailStart(s, e, 1) > 0
             THEN TailStart(s, e, 1)
        ELSE TailStart(s, e, 0)

\* leftmost position from p on where the regular expression matches, or 0
FirstMatch(s, p) ==
    LET at == {q \in p..Len(s) : GroupStartAt(s, q) > 0}
    IN  IF at = {} THEN 0 ELSE Min(at)

\* re.sub(r'(Final answer|The answer is|Result):?\s*(.+)',
\*        r'<strong>Final Answer: \2</strong>', s, IGNORECASE | DOTALL):
\* with DOTALL group 2 runs to the end of s, so there is at most one match
Emphasize(s) ==
    LET p == FirstMatch(s, 1)
    IN  IF p = 0 THEN s
        ELSE SubSeq(s, 1, p - 1) \o StrongFinalAnswer
               \o From(s, GroupStartAt(s, p)) \o StrongClose

\* s.split('\n'), from position i on
RECURSIVE SplitLines(_, _)
SplitLines(s, i) ==
    LET nl == {j \in i..Len(s) : s[j] = "\n"}
    IN  IF nl = {} THEN <<From(s, i)>>
        ELSE <<SubSeq(s, i, Min(nl) - 1)>> \o SplitLines(s, Min(nl) + 1)

\* a plausible slip: re.search in place of re.match, the pattern found
\* anywhere in the line
IsStepLineSearch(line) ==
    \E i \in 1..Len(line) :
        LET n == DigitRun(line, i)
        IN  /\ n >= 1
            /\ i + n + 1 <= Len(line)
            /\ line[i + n] \in {")", "."}
            /\ IsSpace(line[i + n + 1])

\* re.match(r'^\d+[\)\.]\s', line)
IsStepLine(line) ==
    LET n == DigitRun(line, 1)
    IN  /\ n >= 1
        /\ n + 2 <= Len(line)
        /\ line[n + 1] \in {")", "."}
        /\ IsSpace(line[n + 2])

\* line.index(" "): position of the first space, 0 when there is none (the
\* source raises ValueError)
IndexOfSpace(line) ==
    LET sp == {i \in 1..Len(line) : line[i] = " "}
    IN  IF sp = {} THEN 0 ELSE Min(sp)

OlOpen == <<"<", "o", "l", ">">>

OlClose == <<"<", "/", "o", "l", ">">>

LiOpen == <<"<", "l", "i", ">">>

LiClose == <<"<", "/", "l", "i", ">">>

Br == <<"<", "b", "r", ">">>

\* f'<li>{line[line.index(" ")+1:]}</li>'
ListItem(line) == LiOpen \o From(line, IndexOfSpace(line) + 1) \o LiClose

\* the loop over lines from line k on: the elements appended to
\* formatted_lines, the closing token after the loop included.  step_counter
\* is written by the loop and never read, so it is not part of the result.
RECURSIVE FormatLines(_, _, _)
FormatLines(lines, k, in_list) ==
    IF k > Len(lines)
    THEN IF in_list THEN <<OlClose>> ELSE <<>>
    ELSE IF IsStepLine(lines[k])
         THEN (IF in_list THEN <<>> ELSE <<OlOpen>>)
                \o <<ListItem(lines[k])>> \o FormatLines(lines, k + 1, TRUE)
         ELSE (IF in_list THEN <<OlClose>> ELSE <<>>)
                \o <<lines[k]>> \o FormatLines(lines, k + 1, FALSE)

\* '<br>'.join(elems)
RECURSIVE JoinBr(_)
JoinBr(elems) ==
    IF elems = <<>> THEN <<>>
    ELSE IF Len(elems) = 1 THEN elems[1]
    ELSE elems[1] \o Br \o JoinBr(Tail(elems))

\* str(ValueError) of line.index(" ") on a line without a space
SubstringNotFound ==
    <<"s", "u", "b", "s", "t", "r", "i", "n", "g", " ",
      "n", "o", "t", " ", "f", "o", "u", "n", "d">>

\* the text the step loop works on: stripped, blank lines collapsed, the
\* final answer emphasized
PreList(text) == Emphasize(CollapseBlank(Strip(text), 1))

\* the loop raises ValueError at the first step line that has no space
RaisesValueError(lines) ==
    \E k \in 1..Len(lines) :
        IsStepLine(lines[k]) /\ IndexOfSpace(lines[k]) = 0

\* format_output(text): the returned string, or the exception raised
format_output(text) ==
    LET lines == SplitLines(PreList(text), 1)
    IN  IF RaisesValueError(lines)
        THEN [raised |-> TRUE, value |-> SubstringNotFound]
        ELSE [raised |-> FALSE, value |-> JoinBr(FormatLines(lines, 1, FALSE))]

\* format_output(format_exponents(text)), as every caller composes them
normalize(text) == format_output(format_exponents(text))

\* ------------------------------------------------------------ the state

VARIABLES
    raw,        \* the text given to the normalizer
    stage,      \* how far the normalizer has got on raw
    exp,        \* format_exponents(raw)
    norm,       \* format_output(exp)
    again,      \* format_output applied to the text norm returned
    pc,         \* position of the request handler
    route,      \* "solve" or "chat": the endpoint of the current request
    body,       \* request.json of the current request
    calls,      \* the provider calls made for the current request, in order
    outcome,    \* what each provider call of the current request did
    results,    \* the strings solve_with_claude and solve_with_gpt4 returned
    response    \* the HTTP response of the current request

vars == <<raw, stage, exp, norm, again,
          pc, route, body, calls, outcome, results, response>>

normVars == <<raw, stage, exp, norm, again>>

handlerVars == <<pc, route, body, calls, outcome, results, response>>

\* ------------------------------------------------- normalizer, step by step

\* bounds of the inputs of the normalizer
MaxExpLen == 5

MaxStepLen == 5

MaxFrags == 4

MaxIdemLen == 6

ExpAlphabet == {"x", "^", "2", "9", "+"}

StepAlphabet == {"1", ".", " ", "\t", "\n", "a"}

IdemAlphabet == {"1", ".", " ", "\n", "a"}

Fragments ==
    {MarkerResult, MarkerFinalAnswer, MarkerTheAnswerIs,
     <<"r", "E", "S", "U", "L", "T">>,
     <<":">>, <<" ">>, <<"\n">>, <<"\t">>, <<"a">>, <<"1", ".">>}

\* all texts over alphabet A of length at most n
Strings(A, n) == UNION {[1..k -> A] : k \in 0..n}

\* all concatenations of at most n fragments
RECURSIVE Concats(_)
Concats(n) ==
    IF n = 0 THEN {<<>>}
    ELSE LET shorter == Concats(n - 1)
         IN  shorter \cup {p \o f : p \in shorter, f \in Fragments}

ExpInputs == Strings(ExpAlphabet, MaxExpLen)

StepInputs == Strings(StepAlphabet, MaxStepLen)

EmphInputs == Concats(MaxFrags)

IdemInputs == Strings(IdemAlphabet, MaxIdemLen)

NotRun == [raised |-> FALSE, value |-> <<>>]

NormIdle ==
    /\ raw = <<>>
    /\ stage = "off"
    /\ exp = <<>>
    /\ norm = NotRun
    /\ again = NotRun

NormStart(inputs) ==
    /\ raw \in inputs
    /\ stage = "input"
    /\ exp = <<>>
    /\ norm = NotRun
    /\ again = NotRun

\* text = format_exponents(text)
ApplyFormatExponents ==
    /\ stage = "input"
    /\ exp' = format_exponents(raw)
    /\ stage' = "exponents"
    /\ UNCHANGED <<raw, norm, again>>
    /\ UNCHANGED handlerVars

\* format_output(...) of the rewritten text; a ValueError ends the pipeline
ApplyFormatOutput ==
    /\ stage = "exponents"
    /\ norm' = format_output(exp)
    /\ stage' = IF norm'.raised THEN "raised" ELSE "output"
    /\ UNCHANGED <<raw, exp, again>>
    /\ UNCHANGED handlerVars

\* format_output applied to its own output
ReapplyFormatOutput ==
    /\ stage = "output"
    /\ again' = format_output(norm.value)
    /\ stage' = IF again'.raised THEN "raised_again" ELSE "output_again"
    /\ UNCHANGED <<raw, exp, norm>>
    /\ UNCHANGED handlerVars

NextNorm ==
    \/ ApplyFormatExponents
    \/ ApplyFormatOutput
    \/ ReapplyFormatOutput

\* ------------------------------------------------------ request handlers

\* a JSON value that may be absent: <<>> is None, <<v>> is the value v
None == <<>>

Some(v) == <<v>>

\* Python truth of a string that may be None
Truthy(o) == o # None /\ o[1] # ""

\* bodies of /api/solve requests: no JSON, or an object whose `other` tells
\* whether it has keys besides the two the handler reads
SolveBodies ==
    {None} \cup
    {Some([problemType |-> t, expression |-> e, other |-> k]) :
        t \in {None, Some(""), Some("math")},
        e \in {None, Some(""), Some("2+2")},
        k \in BOOLEAN}

\* bodies of /api/chat requests
ChatBodies ==
    {None} \cup
    {Some([model |-> m, message |-> g, context |-> c, other |-> k]) :
        m \in {None, Some(""), Some("claude"), Some("gpt4"), Some("unknown")},
        g \in {None, Some(""), Some("hi")},
        c \in {None, Some("ctx")},
        k \in BOOLEAN}

\* `not data`: no JSON body, or an empty object
NotData(b) ==
    \/ b = None
    \/ /\ ~b[1].other
       /\ \A f \in DOMAIN b[1] \ {"other"} : b[1][f] = None

\* texts a provider may return
Completions ==
    {<<"4">>,
     <<"x", "^", "2">>,
     <<"1", ".", " ", "a", "\n", "R", "e", "s", "u", "l", "t", ":", " ", "4">>,
     <<"1", ".", "\t", "a">>}

\* str(e) of the exceptions a provider call may raise
Causes == {<<"d", "o", "w", "n">>, <<"4", "0", "1">>}

\* a provider call returns a completion or raises an exception
Outcomes ==
    {[raises |-> FALSE, text |-> c] : c \in Completions}
        \cup {[raises |-> TRUE, text |-> m] : m \in Causes}

ErrorPrefix == <<"E", "r", "r", "o", "r", ":", " ">>

AnErrorOccurred ==
    <<"A", "n", " ", "e", "r", "r", "o", "r", " ",
      "o", "c", "c", "u", "r", "r", "e", "d", ":", " ">>

NoJsonData ==
    <<"N", "o", " ", "J", "S", "O", "N", " ", "d", "a", "t", "a", " ",
      "r", "e", "c", "e", "i", "v", "e", "d">>

InvalidInput ==
    <<"I", "n", "v", "a", "l", "i", "d", " ", "i", "n", "p", "u", "t">>

InvalidModel ==
    <<"I", "n", "v", "a", "l", "i", "d", " ", "m", "o", "d", "e", "l", " ",
      "s", "p", "e", "c", "i", "f", "i", "e", "d">>

NoResponse == [status |-> 0, json |-> [pending |-> TRUE]]

HandlerIdle ==
    /\ pc = "idle"
    /\ route = "none"
    /\ body = None
    /\ calls = <<>>
    /\ outcome = <<>>
    /\ results = <<>>
    /\ response = NoResponse

\* a plausible slip: the except branch returns str(e) without the prefix
solve_with_provider_bare(o) ==
    IF o.raises THEN o.text ELSE normalize(o.text).value

\* the try/except of solve_with_claude and of solve_with_gpt4: the string
\* returned when the provider call has outcome o
solve_with_provider(o) ==
    IF o.raises THEN ErrorPrefix \o o.text
    ELSE LET r == normalize(o.text)
         IN  IF r.raised THEN ErrorPrefix \o r.value ELSE r.value

\* a plausible slip: `and` in place of `or`
SolveInvalidAnd(d) == ~Truthy(d.problemType) /\ ~Truthy(d.expression)

\* `not problem_type or not expression`
SolveInvalid(d) == ~Truthy(d.problemType) \/ ~Truthy(d.expression)

\* /api/solve: the request is read and validated
SolveMath(b) ==
    /\ pc \in {"idle", "done"}
    /\ route' = "solve"
    /\ body' = b
    /\ calls' = <<>>
    /\ outcome' = <<>>
    /\ results' = <<>>
    /\ IF NotData(b)
       THEN /\ response' = [status |-> 400, json |-> [error |-> NoJsonData]]
            /\ pc' = "done"
       ELSE IF SolveInvalid(b[1])
       THEN /\ response' = [status |-> 400, json |-> [error |-> InvalidInput]]
            /\ pc' = "done"
       ELSE /\ response' = NoResponse
            /\ pc' = "solve_claude"
    /\ UNCHANGED normVars

\* claude_result = solve_with_claude(problem_type, expression)
SolveWithClaude(o) ==
    /\ pc = "solve_claude"
    /\ calls' = Append(calls, "claude")
    /\ outcome' = Append(outcome, o)
    /\ results' = Append(results, solve_with_provider(o))
    /\ pc' = "solve_gpt4"
    /\ UNCHANGED <<route, body, response>>
    /\ UNCHANGED normVars

\* gpt4_result = solve_with_gpt4(problem_type, expression), then the response
SolveWithGpt4(o) ==
    /\ pc = "solve_gpt4"
    /\ calls' = Append(calls, "gpt4")
    /\ outcome' = Append(outcome, o)
    /\ results' = Append(results, solve_with_provider(o))
    /\ response' = [status |-> 200,
                    json |-> [claude_result |-> results'[1],
                              gpt4_result |-> results'[2],
                              problem_type |-> body[1].problemType,
                              expression |-> body[1].expression]]
    /\ pc' = "done"
    /\ UNCHANGED <<route, body>>
    /\ UNCHANGED normVars

\* a plausible slip: a final `else` that takes every other model for gpt4
ChatTargetElseGpt4(model) ==
    IF model = "claude" THEN "claude" ELSE "gpt4"

\* the if / elif / else on model: the provider to call, "none" for the else
ChatTarget(model) ==
    IF model = "claude" THEN "claude"
    ELSE IF model = "gpt4" THEN "gpt4"
    ELSE "none"

\* /api/chat: the request is read and validated, the provider is chosen
Chat(b) ==
    /\ pc \in {"idle", "done"}
    /\ route' = "chat"
    /\ body' = b
    /\ calls' = <<>>
    /\ outcome' = <<>>
    /\ results' = <<>>
    /\ IF NotData(b)
       THEN /\ response' = [status |-> 400, json |-> [error |-> NoJsonData]]
            /\ pc' = "done"
       ELSE IF ~Truthy(b[1].model) \/ ~Truthy(b[1].message)
       THEN /\ response' = [status |-> 400, json |-> [error |-> InvalidInput]]
            /\ pc' = "done"
       ELSE IF ChatTarget(b[1].model[1]) = "none"
       THEN /\ response' = [status |-> 400, json |-> [error |-> InvalidModel]]
            /\ pc' = "done"
       ELSE /\ response' = NoResponse
            /\ pc' = "chat_" \o ChatTarget(b[1].model[1])
    /\ UNCHANGED normVars

\* what /api/chat answers when its provider call has outcome o: the call and
\* the normalizer are not guarded, so an exception of either one reaches the
\* handler's `except Exception` (HTTP 500)
ChatResponse(o) ==
    IF o.raises
    THEN [status |-> 500, json |-> [error |-> AnErrorOccurred \o o.text]]
    ELSE LET r == normalize(o.text)
         IN  IF r.raised
             THEN [status |-> 500, json |-> [error |-> AnErrorOccurred \o r.value]]
             ELSE [status |-> 200, json |-> [result |-> r.value]]

\* the branch model == 'claude' of /api/chat, to the end of the handler
ChatClaude(o) ==
    /\ pc = "chat_claude"
    /\ calls' = Append(calls, "claude")
    /\ outcome' = Append(outcome, o)
    /\ response' = ChatResponse(o)
    /\ pc' = "done"
    /\ UNCHANGED <<route, body, results>>
    /\ UNCHANGED normVars

\* the branch model == 'gpt4' of /api/chat, to the end of the handler
ChatGpt4(o) ==
    /\ pc = "chat_gpt4"
    /\ calls' = Append(calls, "gpt4")
    /\ outcome' = Append(outcome, o)
    /\ response' = ChatResponse(o)
    /\ pc' = "done"
    /\ UNCHANGED <<route, body, results>>
    /\ UNCHANGED normVars

\* ------------------------------------------------------ specifications

Init == NormIdle /\ HandlerIdle

Next ==
    \/ \E b \in SolveBodies : SolveMath(b)
    \/ \E o \in Outcomes : SolveWithClaude(o)
    \/ \E o \in Outcomes : SolveWithGpt4(o)
    \/ \E b \in ChatBodies : Chat(b)
    \/ \E o \in Outcomes : ChatClaude(o)
    \/ \E o \in Outcomes : ChatGpt4(o)

\* the request handlers
Spec == Init /\ [][Next]_vars

InitExp == NormStart(ExpInputs) /\ HandlerIdle

\* the normalizer on texts with exponents
SpecExp == InitExp /\ [][NextNorm]_vars

InitSteps == NormStart(StepInputs) /\ HandlerIdle

\* the normalizer on texts with numbered lines
SpecSteps == InitSteps /\ [][NextNorm]_vars

InitEmph == NormStart(EmphInputs) /\ HandlerIdle

\* the normalizer on texts with final-answer markers
SpecEmph == InitEmph /\ [][NextNorm]_vars

InitIdem == NormStart(IdemInputs) /\ HandlerIdle

\* the normalizer on longer texts with numbered lines, applied twice
SpecIdem == InitIdem /\ [][NextNorm]_vars

\* ------------------------------------------------------------ properties

\* number of occurrences of the token tok in s
Count(s, tok) == Cardinality({i \in 1..Len(s) : MatchAt(s, i, tok)})

StrongOpen == <<"<", "s", "t", "r", "o", "n", "g", ">">>

FinalAnswerLabel ==
    <<"F", "i", "n", "a", "l", " ", "A", "n", "s", "w", "e", "r", ":", " ">>

\* the current request is finished
Done(r) == pc = "done" /\ route = r

\* a /api/solve body with both fields non-empty
SolveAccepted(b) ==
    /\ b # None
    /\ Truthy(b[1].problemType)
    /\ Truthy(b[1].expression)

\* a /api/chat body with a recognized model and a non-empty message
ChatAccepted(b) ==
    /\ b # None
    /\ b[1].model \in {Some("claude"), Some("gpt4")}
    /\ Truthy(b[1].message)

\* C1: a /api/solve request with both fields non-empty is answered 200 with
\* both result fields, whatever the two provider calls did; each provider is
\* called exactly once; the field of a provider that raised with message m is
\* exactly "Error: m"; and each field depends on that provider's own outcome
\* only, not on what the sibling did.
C1_SolveIsolatesProviderFailures ==
    (Done("solve") /\ SolveAccepted(body)) =>
        /\ response.status = 200
        /\ {"claude_result", "gpt4_result"} \subseteq DOMAIN response.json
        /\ calls = <<"claude", "gpt4">>
        /\ outcome[1].raises =>
              response.json.claude_result = ErrorPrefix \o outcome[1].text
        /\ outcome[2].raises =>
              response.json.gpt4_result = ErrorPrefix \o outcome[2].text
        /\ response.json.claude_result = solve_with_provider(outcome[1])
        /\ response.json.gpt4_result = solve_with_provider(outcome[2])

\* both providers failed and the request was still answered 200
C1_Witness ==
    /\ Done("solve")
    /\ SolveAccepted(body)
    /\ outcome[1].raises
    /\ outcome[2].raises
    /\ outcome[1].text # outcome[2].text
    /\ response.status = 200

\* C2: when the provider chosen by a valid /api/chat request raises with
\* message m, the request is answered 200 with result "Error: m".
C2_ChatRendersProviderError ==
    (Done("chat") /\ ChatAccepted(body) /\ outcome[1].raises) =>
        /\ response.status = 200
        /\ "result" \in DOMAIN response.json
        /\ response.json.result = ErrorPrefix \o outcome[1].text

C5_NormalizerTotal == stage # "raised"

\* the line is of the form <integer><'.' or ')'><space><content>
HasStepForm(line) ==
    LET n == DigitRun(line, 1)
    IN  /\ n >= 1
        /\ n + 2 <= Len(line)
        /\ line[n + 1] \in {".", ")"}
        /\ line[n + 2] = " "

\* the line without its number prefix and the separating space
StepContent(line) == From(line, DigitRun(line, 1) + 3)

\* the elements C6 describes for the lines from line k on: one "<ol>", the
\* items and one "</ol>" for every maximal run of lines of the step form,
\* every other line unchanged
RECURSIVE Listing(_, _, _)
Listing(lines, k, open) ==
    IF k > Len(lines)
    THEN IF open THEN <<OlClose>> ELSE <<>>
    ELSE IF HasStepForm(lines[k])
         THEN (IF open THEN <<>> ELSE <<OlOpen>>)
                \o <<LiOpen \o StepContent(lines[k]) \o LiClose>>
                \o Listing(lines, k + 1, TRUE)
         ELSE (IF open THEN <<OlClose>> ELSE <<>>)
                \o <<lines[k]>> \o Listing(lines, k + 1, FALSE)

\* C6: format_output emits, joined by "<br>", one "<ol>", one "<li>content</li>"
\* per line and one "</ol>" for every maximal run of lines of the form
\* <integer><'.' or ')'><space><content>, and every other line unchanged.
C6_StepListing ==
    (stage \in {"output", "raised"}) =>
        /\ ~norm.raised
        /\ norm.value = JoinBr(Listing(SplitLines(PreList(exp), 1), 1, FALSE))

\* the text the emphasis rule is applied to
Collapsed(text) == CollapseBlank(Strip(text), 1)

\* positions of t where a marker is followed, after an optional colon and
\* whitespace, by at least one more character
MarkerPositions(t) ==
    {p \in 1..Len(t) :
        /\ MarkerLenAt(t, p) > 0
        /\ LET e == p + MarkerLenAt(t, p)
               c == IF e <= Len(t) /\ t[e] = ":" THEN 1 ELSE 0
           IN  e + c + SpaceRun(t, e + c) <= Len(t)}

\* the text after the marker at p, its optional colon and the whitespace
AfterMarker(t, p) ==
    LET e == p + MarkerLenAt(t, p)
        c == IF e <= Len(t) /\ t[e] = ":" THEN 1 ELSE 0
    IN  From(t, e + c + SpaceRun(t, e + c))

\* all positions of s where a marker word occurs, in any letter case
MarkerWords(s) == {p \in 1..Len(s) : MarkerLenAt(s, p) > 0}

\* C7: when the text contains a marker followed by at least one character,
\* the rule rewrites it to the text before the first marker, then
\* "<strong>Final Answer: ", then all text after that marker to the end, then
\* "</strong>"; the output of format_output has exactly one span emitted by
\* the rule, and its first marker word is the "Final Answer" of that span.
C7_SingleBoldSpan ==
    (stage \in {"output", "raised"} /\ MarkerPositions(Collapsed(exp)) # {}) =>
        LET t == Collapsed(exp)
            p == Min(MarkerPositions(t))
            out == norm.value
        IN  /\ PreList(exp) = SubSeq(t, 1, p - 1) \o StrongOpen
                                \o FinalAnswerLabel \o AfterMarker(t, p)
                                \o StrongClose
            /\ ~norm.raised
            /\ Count(out, StrongOpen) = Count(t, StrongOpen) + 1
            /\ Count(out, StrongClose) = Count(t, StrongClose) + 1
            /\ MarkerWords(out) # {}
            /\ MatchAt(out, Min(MarkerWords(out)) - Len(StrongOpen),
                       StrongOpen \o FinalAnswerLabel)

\* exponents of the raw text: a '^' immediately followed by a digit
Exponents(s) == {i \in 1..Len(s) - 1 : s[i] = "^" /\ IsDigit(s[i + 1])}

\* C8: format_exponents replaces each '^' followed by digits by
\* "<sup>digits</sup>": its output has one superscript element per exponent,
\* no '^' followed by a digit and no superscript glyph, and it equals the
\* output of the generic rule alone (the legacy rules x^2..x^9 never fire).
C8_ExponentsGenericRuleOnly ==
    (stage # "input") =>
        /\ exp = SubSup(raw, 1)
        /\ Exponents(exp) = {}
        /\ Count(exp, SupOpen) = Cardinality(Exponents(raw))
        /\ Count(exp, SupClose) = Cardinality(Exponents(raw))
        /\ \A i \in 1..Len(exp) : \A k \in 1..8 : exp[i] # LegacyGlyph[k]

\* "x^2+9" was rewritten to "x<sup>2</sup>+9"
C8_Witness ==
    /\ stage = "exponents"
    /\ raw = <<"x", "^", "2", "+", "9">>
    /\ exp = <<"x">> \o SupOpen \o <<"2">> \o SupClose \o <<"+", "9">>

\* C9: format_output applied to its own output returns, with as many "<ol>"
\* and as many "</ol>" tokens as that output has.
C9_ReapplyAddsNoListContainer ==
    /\ stage # "raised_again"
    /\ (stage = "output_again") =>
          /\ Count(again.value, OlOpen) = Count(norm.value, OlOpen)
          /\ Count(again.value, OlClose) = Count(norm.value, OlClose)

\* an output with a list in it went through format_output again
C9_Witness ==
    /\ stage = "output_again"
    /\ Count(norm.value, OlOpen) = 1
    /\ Count(norm.value, OlClose) = 1
    /\ again.value = norm.value

\* some line of t begins with a marker word
MarkerAtLineStart(t) ==
    \E p \in MarkerWords(t) : p = 1 \/ t[p - 1] = "\n"

\* C10: when no line begins with a marker word, format_output emits no
\* <strong> span and rewrites nothing to "Final Answer: ".
C10_EmphasisOnlyAtLineStart ==
    (stage = "output" /\ ~MarkerAtLineStart(Collapsed(exp))) =>
        /\ Count(norm.value, StrongOpen) = Count(exp, StrongOpen)
        /\ Count(norm.value, FinalAnswerLabel) = Count(exp, FinalAnswerLabel)

====
